---- MODULE Spec2Model ----
(***************************************************************************)
(* Model of cloud/sw_deployment/docker_management.py: the DockerManagement *)
(* class that copies container images between two registries.              *)
(*                                                                         *)
(* Python strings are sequences of one-character strings, so that          *)
(* str.replace, str.split and f-string concatenation are computed, not     *)
(* assumed.  Python None is the one-element sequence None.                  *)
(* Every call the object makes to the outside (container runtime, cloud    *)
(* API, CLI, console) is appended to the log `calls`.                      *)
(***************************************************************************)
EXTENDS Integers, Sequences, FiniteSets, TLC

\* ---------------------------------------------------------------- bounds
MaxImages == 2

\* ---------------------------------------------------------------- strings
None == <<"None">>
Absent == <<"AttributeError">>

Https == <<"h","t","t","p","s",":","/","/">>
Http == <<"h","t","t","p",":","/","/">>
Slash == <<"/">>
Colon == <<":">>
Dash == <<"-">>
Dot == <<".">>
Empty == <<>>
Latest == <<"l","a","t","e","s","t">>
AwsUser == <<"A","W","S">>
AwsPrefix == <<"A","W","S",":">>
NullGuid == <<"0","0","0","0","0","0","0","0","-","0","0","0","0","-","0","0","0","0","-",
              "0","0","0","0","-","0","0","0","0","0","0","0","0","0","0","0","0">>

SrcIo == <<"s","r","c",".","i","o">>
UrlHttps == Https \o SrcIo
UrlHttp == Http \o SrcIo
UrlNested == Https \o SrcIo \o <<"/","?","u","=">> \o Https \o <<"m">>
UrlNoScheme == SrcIo
UrlUpperScheme == <<"H","T","T","P","S",":","/","/">> \o SrcIo
UrlNoTopLevel == Https \o <<"x">>
FromRegistries == {UrlHttps, UrlHttp, UrlNested, UrlNoScheme, UrlUpperScheme, UrlNoTopLevel}

MyRegistry == <<"m","y","r","e","g","i","s","t","r","y",".","i","o">>
EcrRepo == <<"e","c","r",".","a","w","s","/","r">>
ToRegistries == {MyRegistry, EcrRepo}

AppService == <<"a","p","p","/","s","e","r","v","i","c","e",":","v","1">>
AppServiceTag == <<"a","p","p","-","s","e","r","v","i","c","e","-","v","1">>
Db2 == <<"d","b",":","2">>
ImageNames == {AppService, Db2}

Clouds == {None, <<"a","w","s">>, <<"a","z","u","r","e">>}
Aws == <<"a","w","s">>
Azure == <<"a","z","u","r","e">>

\* what the outside world holds when the object is constructed
CredentialFiles == {"ok", "malformed", "missing", "partial"}
FileKeyId == <<"A","K","I","A">>
FileSecret == <<"s","k">>
DecodedTokens == {AwsPrefix \o <<"p","w">>, AwsPrefix \o <<"p">> \o AwsPrefix \o <<"w">>}
AcrToken == <<"j","w","t">>

RECURSIVE SeqsUpTo(_, _)
SeqsUpTo(S, n) ==
  IF n = 0 THEN {<<>>}
  ELSE LET shorter == SeqsUpTo(S, n - 1)
       IN shorter \cup {Append(s, x) : s \in shorter, x \in S}

\* str.replace(old, new): every non-overlapping occurrence, left to right
RECURSIVE Replace(_, _, _)
Replace(s, old, new) ==
  IF Len(s) < Len(old) \/ Len(s) = 0 THEN s
  ELSE IF SubSeq(s, 1, Len(old)) = old
       THEN new \o Replace(SubSeq(s, Len(old) + 1, Len(s)), old, new)
       ELSE <<Head(s)>> \o Replace(Tail(s), old, new)

\* str.split(sep)[0]: the part before the first occurrence of the one-character sep
RECURSIVE SplitFirst(_, _)
SplitFirst(s, sep) ==
  IF Len(s) = 0 \/ <<Head(s)>> = sep THEN <<>>
  ELSE <<Head(s)>> \o SplitFirst(Tail(s), sep)

\* f"{x}": None is formatted as the text None
Str(x) == IF x = None THEN <<"N","o","n","e">> ELSE x

StartsWith(s, p) == Len(s) >= Len(p) /\ SubSeq(s, 1, Len(p)) = p

\* ---------------------------------------------------------------- validators.url
\* The pattern validators.url matches its argument against (re.IGNORECASE), read over
\* ASCII: scheme, optional user information, host, optional port, path, query, fragment.
LowerCase == <<"a","b","c","d","e","f","g","h","i","j","k","l","m",
               "n","o","p","q","r","s","t","u","v","w","x","y","z">>
UpperCase == <<"A","B","C","D","E","F","G","H","I","J","K","L","M",
               "N","O","P","Q","R","S","T","U","V","W","X","Y","Z">>
Letters == {LowerCase[k] : k \in 1..26}
Digits == {"0","1","2","3","4","5","6","7","8","9"}
AlphaNum == Letters \cup Digits
HexDigits == Digits \cup {"a","b","c","d","e","f"}
\* the ASCII characters \S does not match: 9-13, 28-32 (the vertical tab and the four
\* separators 28-31 have no escape and stand in the strings as themselves)
Whitespace == {" ", "\t", "\n", "\r", "\f", "", "", "", "", ""}
UserChars == AlphaNum \cup {"-",".","_","~","%","!","$","&","'","(",")","*","+",",",";","=",":"}
PathChars == UserChars \cup {"@","/"}
Ftp == <<"f","t","p",":","/","/">>
Localhost == <<"l","o","c","a","l","h","o","s","t">>
Xn == <<"x","n","-","-">>

LowerOf(c) ==
  IF \E k \in 1..26 : UpperCase[k] = c
  THEN LowerCase[CHOOSE k \in 1..26 : UpperCase[k] = c] ELSE c
Lowered(s) == [k \in 1..Len(s) |-> LowerOf(s[k])]
AllIn(s, S) == \A k \in 1..Len(s) : s[k] \in S
\* the position of the first character of s that is in S, Len(s) + 1 when there is none
FirstIn(s, S) ==
  IF \E k \in 1..Len(s) : s[k] \in S
  THEN CHOOSE k \in 1..Len(s) : s[k] \in S /\ \A j \in 1..(k - 1) : s[j] \notin S
  ELSE Len(s) + 1
Before(s, k) == SubSeq(s, 1, k - 1)
After(s, k) == SubSeq(s, k + 1, Len(s))
\* the parts of s between the occurrences of the character c
RECURSIVE Parts(_, _)
Parts(s, c) ==
  LET k == FirstIn(s, {c})
  IN IF k > Len(s) THEN <<s>> ELSE <<Before(s, k)>> \o Parts(After(s, k), c)

\* [1-9]\d?|1\d\d|2[01]\d|22[0-3]
FirstOctet(o) ==
  /\ AllIn(o, Digits)
  /\ \/ Len(o) \in {1, 2} /\ o[1] # "0"
     \/ Len(o) = 3 /\ o[1] = "1"
     \/ Len(o) = 3 /\ o[1] = "2" /\ o[2] \in {"0", "1"}
     \/ Len(o) = 3 /\ o[1] = "2" /\ o[2] = "2" /\ o[3] \in {"0","1","2","3"}
\* 1?\d{1,2}|2[0-4]\d|25[0-5]
MiddleOctet(o) ==
  /\ AllIn(o, Digits)
  /\ \/ Len(o) \in {1, 2}
     \/ Len(o) = 3 /\ o[1] = "1"
     \/ Len(o) = 3 /\ o[1] = "2" /\ o[2] \in {"0","1","2","3","4"}
     \/ Len(o) = 3 /\ o[1] = "2" /\ o[2] = "5" /\ o[3] \in {"0","1","2","3","4","5"}
\* 0|[1-9]\d?|1\d\d|2[0-4]\d|25[0-5]
LastOctet(o) ==
  /\ AllIn(o, Digits)
  /\ \/ o = <<"0">>
     \/ Len(o) \in {1, 2} /\ o[1] # "0"
     \/ Len(o) = 3 /\ o[1] = "1"
     \/ Len(o) = 3 /\ o[1] = "2" /\ o[2] \in {"0","1","2","3","4"}
     \/ Len(o) = 3 /\ o[1] = "2" /\ o[2] = "5" /\ o[3] \in {"0","1","2","3","4","5"}
\* the dotted address of the host alternatives (the private ranges are among them)
DottedAddress(h) ==
  LET o == Parts(h, ".")
  IN Len(o) = 4 /\ FirstOctet(o[1]) /\ MiddleOctet(o[2]) /\ MiddleOctet(o[3])
       /\ LastOctet(o[4])

\* (?:xn--[-]{0,2}|[a-z0-9]-?)*[a-z0-9]+ : letters, digits and hyphens, ending in a
\* letter or digit; a hyphen follows a letter or digit, or is one of the two to four
\* hyphens after "xn"
HostLabel(l) ==
  /\ Len(l) >= 1 /\ AllIn(l, AlphaNum \cup {"-"}) /\ l[Len(l)] # "-"
  /\ \A k \in 1..Len(l) :
       l[k] = "-"
         => \/ k >= 2 /\ l[k - 1] # "-"
            \/ \E j \in 3..k : /\ k - j <= 3
                               /\ \A m \in j..k : l[m] = "-"
                               /\ l[j - 2] = "x" /\ l[j - 1] = "n"
                               /\ k > j
\* xn--[-]{0,2}[a-z0-9]{2,}|[a-z]{2,}
TopLevel(l) ==
  \/ Len(l) >= 2 /\ AllIn(l, Letters)
  \/ \E h \in 0..2 :
       /\ Len(l) >= 4 + h + 2
       /\ SubSeq(l, 1, 4) = Xn
       /\ \A m \in 5..(4 + h) : l[m] = "-"
       /\ AllIn(SubSeq(l, 5 + h, Len(l)), AlphaNum)
HostName(h) ==
  LET l == Parts(h, ".")
  IN /\ Len(l) >= 2
     /\ \A k \in 1..(Len(l) - 1) : HostLabel(l[k])
     /\ TopLevel(l[Len(l)])

\* [0-9a-f]{1,4}
HexGroup(g) == Len(g) \in 1..4 /\ AllIn(g, HexDigits)
HexGroups(s, lo, hi) ==
  IF s = <<>> THEN lo = 0
  ELSE LET g == Parts(s, ":") IN Len(g) \in lo..hi /\ \A k \in 1..Len(g) : HexGroup(g[k])
\* 25[0-5]|(2[0-4]|1?[0-9])?[0-9]
Octet(o) ==
  /\ AllIn(o, Digits)
  /\ \/ Len(o) = 1
     \/ Len(o) = 2
     \/ Len(o) = 3 /\ o[1] = "1"
     \/ Len(o) = 3 /\ o[1] = "2" /\ o[2] \in {"0","1","2","3","4"}
     \/ Len(o) = 3 /\ o[1] = "2" /\ o[2] = "5" /\ o[3] \in {"0","1","2","3","4","5"}
Dotted(a) == LET o == Parts(a, ".") IN Len(o) = 4 /\ \A k \in 1..4 : Octet(o[k])
\* the first position where "::" begins, 0 when there is none
DoubleColon(a) ==
  IF \E k \in 1..(Len(a) - 1) : a[k] = ":" /\ a[k + 1] = ":"
  THEN CHOOSE k \in 1..(Len(a) - 1) :
         /\ a[k] = ":" /\ a[k + 1] = ":"
         /\ \A j \in 1..(k - 1) : ~(a[j] = ":" /\ a[j + 1] = ":")
  ELSE 0
\* the alternatives of the bracketed address
Bracketed(a) ==
  LET d == DoubleColon(a)
      left == Before(a, d)
      right == SubSeq(a, d + 2, Len(a))
      nl == IF left = <<>> THEN 0 ELSE Len(Parts(left, ":"))
      nr == IF right = <<>> THEN 0 ELSE Len(Parts(right, ":"))
      pct == FirstIn(a, {"%"})
  IN \/ d = 0 /\ HexGroups(a, 8, 8)
     \/ /\ d > 0
        /\ HexGroups(left, 0, 7) /\ HexGroups(right, 0, 7)
        /\ IF nl = 0 THEN TRUE ELSE nl + nr <= 7
     \/ /\ StartsWith(a, <<"f","e","8","0",":">>) /\ pct <= Len(a)
        /\ Len(After(a, pct)) >= 1 /\ AllIn(After(a, pct), AlphaNum)
        /\ LET z == SubSeq(a, 6, pct - 1)
               g == Parts(z, ":")
           IN z = <<>> \/ /\ Len(g) \in 2..5 /\ g[1] = <<>>
                          /\ \A k \in 2..Len(g) : Len(g[k]) <= 4 /\ AllIn(g[k], HexDigits)
     \/ /\ d = 1 /\ Dotted(right)
     \/ /\ d = 1
        /\ LET g == Parts(right, ":")
           IN /\ Len(g) \in 2..3 /\ g[1] = <<"f","f","f","f">> /\ Dotted(g[Len(g)])
              /\ Len(g) = 3 => Len(g[2]) \in 1..4 /\ AllIn(g[2], {"0"})
     \/ /\ d > 1 /\ HexGroups(left, 1, 4) /\ Dotted(right)

\* \d{2,5}
Port(q) == Len(q) \in 2..5 /\ AllIn(q, Digits)
HostAndPort(h) ==
  IF Len(h) >= 1 /\ h[1] = "["
  THEN LET c == FirstIn(h, {"]"})
           rest == After(h, c)
       IN /\ c <= Len(h) /\ Bracketed(SubSeq(h, 2, c - 1))
          /\ rest = <<>> \/ (rest[1] = ":" /\ Port(Tail(rest)))
  ELSE LET c == FirstIn(h, {":"})
           host == Before(h, c)
       IN /\ host = Localhost \/ DottedAddress(host) \/ HostName(host)
          /\ c > Len(h) \/ Port(After(h, c))
Authority(a) ==
  LET at == FirstIn(a, {"@"})
  IN IF at > Len(a) THEN HostAndPort(a)
     ELSE /\ at >= 2 /\ AllIn(Before(a, at), UserChars)
          /\ HostAndPort(After(a, at))

\* line 53: validators.url(from_registry)
ValidUrl(s) ==
  LET t == Lowered(IF Len(s) >= 1 /\ s[Len(s)] = "\n" THEN Before(s, Len(s)) ELSE s)
  IN \E p \in {Https, Http, Ftp} :
       /\ StartsWith(t, p)
       /\ LET rest == SubSeq(t, Len(p) + 1, Len(t))
              a == FirstIn(rest, {"/", "?", "#"})
              tail == SubSeq(rest, a, Len(rest))
              q == FirstIn(tail, {"?", "#"})
          IN /\ Authority(Before(rest, a))
             /\ AllIn(Before(tail, q), PathChars)
             /\ \A k \in q..Len(tail) : tail[k] \notin Whitespace

\* ---------------------------------------------------------------- state
VARIABLES args, env, pc, i, raised, new_image,
          cloud, show_log, to_registry, images_to_replicate, from_registry,
          aws_access_key_id, aws_access_secret_key,
          cr_username, cr_password, cr_url, tagged_images, calls

fields == <<cloud, show_log, to_registry, images_to_replicate, from_registry,
            aws_access_key_id, aws_access_secret_key,
            cr_username, cr_password, cr_url, tagged_images>>
vars == <<args, env, pc, i, raised, new_image, fields, calls>>

\* one entry of the log of outside calls; idx is the list position being processed
Call(op, idx, image, tag, registry, username, password, result) ==
  [op |-> op, idx |-> idx, image |-> image, tag |-> tag, registry |-> registry,
   username |-> username, password |-> password, result |-> result]
Ev(op, idx) == Call(op, idx, None, None, None, None, None, "ok")

\* the value of new_image when tag_image returns None
NoImage == [repository |-> None, tag |-> None]

Init ==
  /\ args \in [from_registry : FromRegistries, to_registry : ToRegistries,
               images_to_replicate : SeqsUpTo(ImageNames, MaxImages),
               cloud : Clouds, show_log : BOOLEAN]
  /\ env \in [credentials_file : CredentialFiles, token : DecodedTokens]
  /\ pc = "new"
  /\ i = 0
  /\ raised = "none"
  /\ new_image = NoImage
  /\ cloud = Absent /\ show_log = FALSE /\ to_registry = Absent
  /\ images_to_replicate = <<>> /\ from_registry = Absent
  /\ aws_access_key_id = Absent /\ aws_access_secret_key = Absent
  /\ cr_username = Absent /\ cr_password = Absent /\ cr_url = Absent
  /\ tagged_images = <<>>
  /\ calls = <<>>

\* ---------------------------------------------------------------- __init__
\* the return after the message left out
ReturnsEarlyNever(valid) == FALSE

\* line 53-55: the constructor returns early exactly when the URL is not valid
ReturnsEarly(valid) == ~valid

\* line 57: from_registry.replace('https://', '')
StoredFromRegistry(url) == Replace(url, Https, Empty)

\* the ParsingError not caught
CredentialsReadUncaught(file) ==
  CASE file = "ok" ->
         [key |-> FileKeyId, secret |-> FileSecret, error |-> "none", caught |-> FALSE]
    [] file = "malformed" ->
         [key |-> None, secret |-> None, error |-> "ParsingError", caught |-> FALSE]
    [] file = "partial" ->
         [key |-> FileKeyId, secret |-> None, error |-> "KeyError", caught |-> FALSE]
    [] OTHER ->
         [key |-> None, secret |-> None, error |-> "KeyError", caught |-> FALSE]

\* lines 106-112: reading ~/.aws/credentials; only ParsingError is caught
CredentialsRead(file) ==
  CASE file = "ok" ->
         [key |-> FileKeyId, secret |-> FileSecret, error |-> "none", caught |-> FALSE]
    [] file = "malformed" ->
         [key |-> None, secret |-> None, error |-> "ParsingError", caught |-> TRUE]
    [] file = "partial" ->
         [key |-> FileKeyId, secret |-> None, error |-> "KeyError", caught |-> FALSE]
    [] OTHER ->
         [key |-> None, secret |-> None, error |-> "KeyError", caught |-> FALSE]

\* line 121-122: the decoded token with every 'AWS:' removed
EcrPassword(decoded) == Replace(decoded, AwsPrefix, Empty)

\* line 126: to_registry.split(".")[0]
AcrName(registry) == SplitFirst(registry, Dot)

\* the outcome of a credential provider: the fields it leaves and the calls it made
NoProvider ==
  [key |-> None, secret |-> None, username |-> None, password |-> None, url |-> None,
   calls |-> <<>>, raised |-> "none"]

\* lines 104-123
initialize_ecr(file, decoded, registry, out) ==
  LET rd == CredentialsRead(file)
      entry == <<Ev("initialize_ecr", 0)>>
      report == IF rd.caught THEN <<Ev("secho_parser_error", 0)>> ELSE <<>>
      token == Call("get_authorization_token", 0, None, None, None, rd.key, rd.secret,
                    IF out = "ok" THEN "ok" ELSE "raised")
  IN IF rd.error # "none" /\ ~rd.caught
       THEN [NoProvider EXCEPT !.key = rd.key, !.secret = rd.secret,
                               !.calls = entry, !.raised = rd.error]
     ELSE IF out # "ok"
       THEN [NoProvider EXCEPT !.key = rd.key, !.secret = rd.secret,
                               !.calls = entry \o report \o <<token>>,
                               !.raised = "ClientError"]
     ELSE [key |-> rd.key, secret |-> rd.secret, username |-> AwsUser,
           password |-> EcrPassword(decoded), url |-> registry,
           calls |-> entry \o report \o <<token>>, raised |-> "none"]

\* lines 126-132
initialize_acr(registry, out) ==
  LET entry == <<Ev("initialize_acr", 0)>>
      cli == Call("az_acr_login", 0, AcrName(registry), None, None, None, None,
                  IF out = "ok" THEN "ok" ELSE "raised")
  IN IF out # "ok"
       THEN [NoProvider EXCEPT !.calls = entry \o <<cli>>, !.raised = "JSONDecodeError"]
     ELSE [NoProvider EXCEPT !.username = NullGuid, !.password = AcrToken,
                             !.url = registry, !.calls = entry \o <<cli>>]

\* lines 40-64
Construct ==
  /\ pc = "new"
  /\ \E out \in {"ok", "provider_raises", "from_env_raises"} :
       IF out = "from_env_raises"
       THEN /\ pc' = "init_raised"
            /\ raised' = "DockerException"
            /\ calls' = Append(calls, Call("from_env", 0, None, None, None, None, None, "raised"))
            /\ UNCHANGED fields
       ELSE
       LET early == ReturnsEarly(ValidUrl(args.from_registry))
           prov == IF early THEN NoProvider
                   ELSE IF args.cloud = Aws
                     THEN initialize_ecr(env.credentials_file, env.token, args.to_registry,
                                         IF out = "ok" THEN "ok" ELSE "raised")
                   ELSE IF args.cloud = Azure
                     THEN initialize_acr(args.to_registry,
                                         IF out = "ok" THEN "ok" ELSE "raised")
                   ELSE NoProvider
       IN /\ cloud' = args.cloud
          /\ show_log' = args.show_log
          /\ to_registry' = args.to_registry
          /\ images_to_replicate' = args.images_to_replicate
          /\ tagged_images' = <<>>
          /\ from_registry' = IF early THEN Absent ELSE StoredFromRegistry(args.from_registry)
          /\ aws_access_key_id' = prov.key
          /\ aws_access_secret_key' = prov.secret
          /\ cr_username' = prov.username
          /\ cr_password' = prov.password
          /\ cr_url' = prov.url
          /\ calls' = calls \o <<Ev("from_env", 0)>>
                        \o (IF early THEN <<Ev("secho_invalid_url", 0)>>
                            ELSE <<Ev("echo_images", 0)>>)
                        \o prov.calls
          /\ raised' = prov.raised
          /\ pc' = IF prov.raised = "none" THEN "constructed" ELSE "init_raised"
  /\ UNCHANGED <<args, env, i, new_image>>

\* ---------------------------------------------------------------- registry client
\* lines 148-156: pull_image; out is what the runtime does
pull_image(registry_url, image_name, username, password, k, out) ==
  LET ref == Str(registry_url) \o Slash \o Str(image_name)
      withLogin == ~(username = None /\ password = None)
      login == Call("login", k, None, None, registry_url, username, password,
                    IF out = "login_raises" THEN "raised" ELSE "ok")
      pull == Call("images.pull", k, ref, None, None, None, None,
                   IF out = "ok" THEN "ok" ELSE "raised")
      entry == <<Call("pull_image", k, image_name, None, registry_url, username, password, "ok")>>
  IN IF withLogin /\ out = "login_raises"
       THEN [calls |-> entry \o <<login>>, raised |-> "APIError"]
     ELSE [calls |-> entry \o (IF withLogin THEN <<login>> ELSE <<>>) \o <<pull>>
                      \o (IF out = "ok" THEN <<Ev("echo_pull_output", k)>> ELSE <<>>),
           raised |-> IF out = "ok" THEN "none" ELSE "APIError"]

\* only the slashes replaced
AwsTagSlashesOnly(image_name) == Replace(image_name, Slash, Dash)

\* line 174: image_name.replace('/', '-').replace(':', '-')
AwsTag(image_name) == Replace(Replace(image_name, Slash, Dash), Colon, Dash)

\* lines 172-177: the destination reference
TargetReference(kind, registry_new, image_name) ==
  IF kind = Aws
  THEN [repository |-> registry_new, tag |-> AwsTag(image_name)]
  ELSE [repository |-> Str(registry_new) \o Slash \o Str(image_name), tag |-> Latest]

\* the dict returned whatever image.tag answered
TagReturnAlways(result, target) == target

\* lines 179-180: the dict when image.tag returned a truthy result, else None
TagReturn(result, target) == IF result THEN target ELSE NoImage

\* lines 171-180: tag_image; out is what the runtime does
tag_image(kind, image_name, registry_old, registry_new, k, out) ==
  LET ref == Str(registry_old) \o Slash \o Str(image_name)
      target == TargetReference(kind, registry_new, image_name)
      entry == <<Call("tag_image", k, image_name, None, registry_new, None, None, "ok")>>
      get == Call("images.get", k, ref, None, None, None, None,
                  IF out = "get_raises" THEN "raised" ELSE "ok")
      tag == Call("image.tag", k, target.repository, target.tag, None, None, None,
                  IF out = "tag_raises" THEN "raised" ELSE out)
  IN IF out = "get_raises"
       THEN [calls |-> entry \o <<get>>, raised |-> "ImageNotFound", value |-> NoImage]
     ELSE IF out = "tag_raises"
       THEN [calls |-> entry \o <<get, tag>>, raised |-> "APIError", value |-> NoImage]
     ELSE [calls |-> entry \o <<get, tag>>, raised |-> "none",
           value |-> TagReturn(out = "True", target)]

\* lines 197-202: the auth_config of a push
AuthConfig(registry, username, password) ==
  IF registry # None /\ username # None /\ password # None
  THEN [username |-> username, password |-> password]
  ELSE [username |-> None, password |-> None]
NoAuth == [username |-> None, password |-> None]

\* line 204: the runtime push is issued only with an auth_config
PushIssued(auth) == auth # NoAuth

\* line 206: the push log is echoed when show_log is false
PushLogEchoed(flag) == ~flag

\* lines 196-207: push_image; out is what the runtime does
push_image(image, tag, registry, username, password, flag, k, out) ==
  LET auth == AuthConfig(registry, username, password)
      entry == <<Call("push_image", k, image, tag, registry, username, password, "ok"),
                 Ev("echo_pushing", k)>>
      login == Call("login", k, None, None, registry, username, password,
                    IF out = "login_raises" THEN "raised" ELSE "ok")
      push == Call("images.push", k, image, tag, None, auth.username, auth.password,
                   IF out = "ok" THEN "ok" ELSE "raised")
      authenticated == auth # NoAuth
      pushed == IF PushIssued(auth)
                THEN <<push>> \o (IF out = "ok" /\ PushLogEchoed(flag)
                                  THEN <<Ev("echo_push_log", k)>> ELSE <<>>)
                ELSE <<>>
  IN IF authenticated /\ out = "login_raises"
       THEN [calls |-> entry \o <<login>>, raised |-> "APIError"]
     ELSE [calls |-> entry \o (IF authenticated THEN <<login>> ELSE <<>>) \o pushed,
           raised |-> IF PushIssued(auth) /\ out # "ok" THEN "APIError" ELSE "none"]

\* ---------------------------------------------------------------- copy_images
\* a step's exception swallowed: the loop goes on
AfterStepSwallowed(exception, next) == next

\* an exception of a step is not caught: the loop goes on only after a step that returned
AfterStep(exception, next) == IF exception = "none" THEN next ELSE "error"

\* the loop bound off by one: the last list position is taken again
LoopPcAgain(k, n) == IF k < n \/ (k = n /\ n > 0) THEN "pull" ELSE "done"

\* line 78: the for loop takes the next list position, or ends
NextIndex(k) == k + 1
LoopPc(k, n) == IF k < n THEN "pull" ELSE "done"

\* the image's own repository given as the registry to log in to
PushArgumentsOwnRegistry(image, url, username, password) ==
  [image |-> image.repository, tag |-> image.tag,
   registry |-> image.repository, username |-> username, password |-> password]

\* lines 85-89: the arguments copy_images gives push_image
PushArguments(image, url, username, password) ==
  [image |-> image.repository, tag |-> image.tag,
   registry |-> url, username |-> username, password |-> password]

\* line 66, 78: copy_images is called and enters its loop
CopyImages ==
  /\ pc = "constructed"
  /\ calls' = Append(calls, Ev("copy_images", 0))
  /\ pc' = LoopPc(0, Len(images_to_replicate))
  /\ i' = IF Len(images_to_replicate) > 0 THEN NextIndex(0) ELSE 0
  /\ UNCHANGED <<args, env, raised, new_image, fields>>

\* lines 79-80
PullImage ==
  /\ pc = "pull"
  /\ \E out \in {"ok", "pull_raises"} :
       IF from_registry = Absent
       THEN /\ raised' = "AttributeError"
            /\ pc' = AfterStep("AttributeError", "tag")
            /\ UNCHANGED calls
       ELSE LET r == pull_image(from_registry, images_to_replicate[i], None, None, i, out)
            IN /\ calls' = calls \o r.calls
               /\ raised' = r.raised
               /\ pc' = AfterStep(r.raised, "tag")
  /\ UNCHANGED <<args, env, i, new_image, fields>>

\* lines 81-84
TagImage ==
  /\ pc = "tag"
  /\ \E out \in {"True", "False", "get_raises", "tag_raises"} :
       LET r == tag_image(cloud, images_to_replicate[i], from_registry, to_registry, i, out)
       IN /\ calls' = calls \o r.calls
          /\ raised' = r.raised
          /\ pc' = AfterStep(r.raised, "push")
          /\ new_image' = IF r.raised = "none" THEN r.value ELSE new_image
          /\ tagged_images' = IF r.raised = "none" THEN Append(tagged_images, r.value)
                              ELSE tagged_images
  /\ UNCHANGED <<args, env, i, cloud, show_log, to_registry, images_to_replicate,
                 from_registry, aws_access_key_id, aws_access_secret_key,
                 cr_username, cr_password, cr_url>>

\* lines 85-89, then line 78 again
PushImage ==
  /\ pc = "push"
  /\ \E out \in {"ok", "login_raises", "push_raises"} :
       IF new_image = NoImage
       THEN /\ raised' = "TypeError"
            /\ pc' = AfterStep("TypeError", LoopPc(i, Len(images_to_replicate)))
            /\ UNCHANGED <<calls, i>>
       ELSE LET a == PushArguments(new_image, cr_url, cr_username, cr_password)
                r == push_image(a.image, a.tag, a.registry, a.username, a.password,
                                show_log, i, out)
            IN /\ calls' = calls \o r.calls
               /\ raised' = r.raised
               /\ pc' = AfterStep(r.raised, LoopPc(i, Len(images_to_replicate)))
               /\ i' = IF r.raised = "none" /\ i < Len(images_to_replicate)
                       THEN NextIndex(i) ELSE i
  /\ UNCHANGED <<args, env, new_image, fields>>

Next == Construct \/ CopyImages \/ PullImage \/ TagImage \/ PushImage

Spec == Init /\ [][Next]_vars

\* ---------------------------------------------------------------- the log, read back
Positions == 1..Len(calls)
RuntimeOps == {"images.pull", "image.tag", "images.push"}
ProviderOps == {"initialize_ecr", "initialize_acr", "get_authorization_token", "az_acr_login"}
ClientOps == {"login", "images.pull", "images.get", "image.tag", "images.push"}
Rank(op) == CASE op = "images.pull" -> 1 [] op = "image.tag" -> 2 [] OTHER -> 3
Count(op, k) == Cardinality({p \in Positions : calls[p].op = op /\ calls[p].idx = k})
RunOver == pc \in {"done", "error"}

\* ---------------------------------------------------------------- C1
\* C1: per list position the runtime calls come in the order pull, tag, push, each at
\* most once; the pull is of source/image and the push is of the reference that was
\* tagged; positions are handled in list order, and nothing for position k+1 is called
\* before the push step of position k was entered and had made its last call; a
\* finished run has pulled and tagged every position exactly once.
C1_Order ==
  /\ \A p, q \in Positions :
       p < q => /\ calls[p].idx <= calls[q].idx
                /\ (calls[p].idx = calls[q].idx /\ calls[p].idx >= 1
                    /\ calls[p].op \in RuntimeOps /\ calls[q].op \in RuntimeOps)
                     => Rank(calls[p].op) < Rank(calls[q].op)
  /\ \A q \in Positions :
       LET c == calls[q] IN
       /\ c.op = "images.pull"
            => c.image = from_registry \o Slash \o images_to_replicate[c.idx]
       /\ c.op = "image.tag"
            => \E p \in 1..(q - 1) : calls[p].op = "images.pull" /\ calls[p].idx = c.idx
                                      /\ calls[p].result = "ok"
       /\ c.op = "images.push"
            => \E p \in 1..(q - 1) : /\ calls[p].op = "image.tag" /\ calls[p].idx = c.idx
                                      /\ calls[p].result = "True"
                                      /\ calls[p].image = c.image /\ calls[p].tag = c.tag
       /\ c.idx > 1
            => \E p \in 1..(q - 1) : calls[p].op = "push_image" /\ calls[p].idx = c.idx - 1
  /\ pc = "done"
       => \A k \in 1..Len(images_to_replicate) :
            /\ Count("images.pull", k) = 1 /\ Count("image.tag", k) = 1
            /\ Count("push_image", k) = 1 /\ Count("images.push", k) <= 1

C1_Witness ==
  /\ pc = "done" /\ Len(images_to_replicate) = 2
  /\ Count("images.push", 1) = 1 /\ Count("images.push", 2) = 1
  /\ images_to_replicate[1] # images_to_replicate[2]

\* ---------------------------------------------------------------- C2
\* C2: when the push has no credentials (cloud unset, or registry, username or password
\* missing), a finished copy_images run has issued exactly one runtime push per image.
C2_UnauthenticatedPush ==
  (pc = "done" /\ (cr_url = None \/ cr_username = None \/ cr_password = None))
    => \A k \in 1..Len(images_to_replicate) : Count("images.push", k) = 1

\* ---------------------------------------------------------------- C3
\* C3: every push step is given the triple obtained by initialization (the current
\* cr_url, cr_username, cr_password, which no step after construction changes), the
\* runtime login and push carry that username and password, and a credential provider
\* is entered at most once and never after copy_images was called.
C3_State ==
  /\ \A p \in Positions :
       LET c == calls[p] IN
       /\ c.op = "push_image"
            => c.registry = cr_url /\ c.username = cr_username /\ c.password = cr_password
       /\ (c.op \in {"login", "images.push"} /\ c.idx >= 1)
            => c.username = cr_username /\ c.password = cr_password
       /\ (c.op = "login" /\ c.idx >= 1) => c.registry = cr_url
       /\ c.op \in ProviderOps
            => \A q \in Positions : calls[q].op = "copy_images" => p < q
  /\ Cardinality({p \in Positions : calls[p].op \in {"initialize_ecr", "initialize_acr"}}) <= 1
C3_Step == pc # "new" => UNCHANGED <<cr_url, cr_username, cr_password>>
C3_Credentials == []C3_State /\ [][C3_Step]_vars

C3_Witness ==
  /\ pc = "done" /\ cloud = Azure /\ cr_username = NullGuid
  /\ Count("images.push", 1) = 1 /\ Count("images.push", 2) = 1

\* ---------------------------------------------------------------- C4
\* C4: a call that raises during copy_images is the last call the run makes: the run is
\* in its error state at that list position, nothing was called for a later position,
\* the failed call was made once, and no further step is taken from the error state.
C4_State ==
  /\ \A p \in Positions :
       (calls[p].result = "raised" /\ calls[p].idx >= 1)
         => /\ p = Len(calls)
            /\ pc = "error" /\ raised # "none" /\ i = calls[p].idx
            /\ Cardinality({q \in Positions : calls[q].op = calls[p].op
                                               /\ calls[q].idx = calls[p].idx}) = 1
  /\ pc = "error" => /\ raised # "none"
                     /\ \A p \in Positions : calls[p].idx <= i
  /\ (pc \in {"pull", "tag", "push", "done"}) => raised = "none"
C4_Step == pc = "error" => UNCHANGED vars
C4_Abort == []C4_State /\ [][C4_Step]_vars

C4_Witness ==
  /\ pc = "error" /\ i = 1 /\ Len(images_to_replicate) = 2
  /\ calls[Len(calls)].op = "image.tag" /\ calls[Len(calls)].result = "raised"

\* ---------------------------------------------------------------- C5
\* C5: after a constructor call with an invalid source URL, for every cloud kind, no
\* credential provider was called, the key and credential fields are None, the source
\* registry was never stored, and no call reaches the container runtime, also after
\* copy_images was called.
ConstructorRan == Len(calls) >= 1 /\ calls[1].op = "from_env" /\ calls[1].result = "ok"
C5_InvalidUrl ==
  (ConstructorRan /\ ~ValidUrl(args.from_registry))
    => /\ \A p \in Positions : calls[p].op \notin ProviderOps \cup ClientOps
       /\ \E p \in Positions : calls[p].op = "secho_invalid_url"
       /\ cr_username = None /\ cr_password = None /\ cr_url = None
       /\ aws_access_key_id = None /\ aws_access_secret_key = None
       /\ from_registry = Absent
       /\ pc # "init_raised"
       /\ tagged_images = <<>>

C5_Witness ==
  /\ ~ValidUrl(args.from_registry) /\ cloud = Aws
  /\ pc = "error" /\ raised = "AttributeError" /\ Len(images_to_replicate) = 2

\* ---------------------------------------------------------------- C6
ParseFailed ==
  /\ ConstructorRan /\ ValidUrl(args.from_registry)
  /\ args.cloud = Aws /\ env.credentials_file = "malformed"

\* C6 as claimed: with cloud aws and a credentials file that fails to parse, the
\* constructor does not raise, the parse error is reported, and access key, secret key,
\* cr_username, cr_password and cr_url are all left unset.
C6_ParseFailureLeavesUnset ==
  ParseFailed
    => /\ pc # "init_raised"
       /\ \E p \in Positions : calls[p].op = "secho_parser_error"
       /\ aws_access_key_id = None /\ aws_access_secret_key = None
       /\ cr_username = None /\ cr_password = None /\ cr_url = None

\* C6 amended: the parse error is caught and reported and leaves access key and secret
\* key unset; the constructor then asks for the ECR token with the unset keys.  If that
\* call returns, the registry credentials are set as on the normal path and the object
\* is returned; if it raises, the constructor raises that error (never the parse error)
\* and the registry credentials stay unset.
C6_ParseFailureGoesOn ==
  ParseFailed
    => /\ \E p \in Positions : calls[p].op = "secho_parser_error"
       /\ aws_access_key_id = None /\ aws_access_secret_key = None
       /\ \E p \in Positions : /\ calls[p].op = "get_authorization_token"
                               /\ calls[p].username = None /\ calls[p].password = None
       /\ raised \notin {"ParsingError", "KeyError"}
       /\ pc = "init_raised"
            => /\ raised = "ClientError"
               /\ cr_username = None /\ cr_password = None /\ cr_url = None
       /\ pc # "init_raised"
            => /\ cr_username = AwsUser /\ cr_url = args.to_registry
               /\ cr_password \notin {None, Absent}

C6_Witness ==
  /\ ParseFailed /\ pc = "done" /\ cr_username = AwsUser
  /\ Count("images.push", 1) = 1

\* ---------------------------------------------------------------- C7
\* C7: the reference given to the runtime tag call is, for cloud aws, the destination
\* registry unchanged with the image name as tag, every '/' and ':' of it turned into
\* '-' and every other character kept ('app/service:v1' gives 'app-service-v1'); for
\* any other cloud it is destination/image-name with the tag 'latest'.  The push step
\* is given that same pair.
Sanitized(name, tag) ==
  /\ Len(tag) = Len(name)
  /\ \A j \in 1..Len(name) : tag[j] = IF name[j] \in {"/", ":"} THEN "-" ELSE name[j]
Derived(name, repository, tag) ==
  IF cloud = Aws
  THEN /\ repository = to_registry
       /\ Sanitized(name, tag)
       /\ name = AppService => tag = AppServiceTag
  ELSE /\ repository = to_registry \o <<"/">> \o name
       /\ tag = <<"l","a","t","e","s","t">>
C7_Derivation ==
  \A p \in Positions :
    LET c == calls[p] IN
    /\ c.op \in {"image.tag", "push_image", "images.push"}
         => Derived(images_to_replicate[c.idx], c.image, c.tag)
    /\ (c.op = "image.tag" /\ c.result = "True" /\ c.idx <= Len(tagged_images))
         => tagged_images[c.idx] = [repository |-> c.image, tag |-> c.tag]

C7_Witness ==
  /\ cloud = Aws /\ pc = "done" /\ Len(images_to_replicate) = 2
  /\ images_to_replicate[1] = AppService
  /\ \E p \in Positions : calls[p].op = "images.push" /\ calls[p].tag = AppServiceTag

\* ---------------------------------------------------------------- C8
LeadingHttpsRemoved(url) ==
  IF StartsWith(url, Https) THEN SubSeq(url, Len(Https) + 1, Len(url)) ELSE url

\* C8: for a valid source URL the stored source registry is the input without its
\* leading 'https://' and otherwise unchanged, and every pull is from that registry.
C8_PrefixOnly ==
  (ConstructorRan /\ ValidUrl(args.from_registry))
    => /\ from_registry = LeadingHttpsRemoved(args.from_registry)
       /\ \A p \in Positions :
            calls[p].op = "images.pull"
              => calls[p].image = LeadingHttpsRemoved(args.from_registry) \o <<"/">>
                                    \o images_to_replicate[calls[p].idx]

\* ---------------------------------------------------------------- C9
TagAnsweredFalse(k) ==
  \E p \in Positions : calls[p].op = "image.tag" /\ calls[p].idx = k /\ calls[p].result = "False"

\* C9 as claimed: when the runtime tag call answers false for an image, the run goes on
\* to invoke the push step for that image.
C9_FalsyTagReachesPush ==
  \A k \in 1..Len(images_to_replicate) :
    (TagAnsweredFalse(k) /\ RunOver) => Count("push_image", k) = 1

\* C9 amended: when the runtime tag call answers false for an image, copy_images does
\* not check it: None is appended to tagged_images, and the run then fails with a
\* TypeError while building the arguments of the push step, so that neither the push
\* step nor any runtime login or push happens for that image, nor any call for a later
\* image.
C9_FalsyTagStopsBeforePush ==
  \A k \in 1..Len(images_to_replicate) :
    TagAnsweredFalse(k)
      => /\ Len(tagged_images) = k /\ tagged_images[k] = NoImage
         /\ Count("push_image", k) = 0 /\ Count("images.push", k) = 0
         /\ Count("login", k) = 0
         /\ \A p \in Positions : calls[p].idx <= k
         /\ pc \in {"push", "error"} /\ i = k
         /\ pc = "error" => raised = "TypeError"

C9_Witness ==
  /\ TagAnsweredFalse(2) /\ pc = "error" /\ raised = "TypeError"
  /\ Count("images.push", 1) = 1

\* ---------------------------------------------------------------- C10
\* C10: a completed runtime push is followed by the echo of its log exactly when
\* show_log is true.
C10_LogWhenShowLog ==
  \A p \in Positions :
    (calls[p].op = "images.push" /\ calls[p].result = "ok")
      => (show_log <=> (p < Len(calls) /\ calls[p + 1].op = "echo_push_log"))
====
